---- MODULE Spec2Model ----
(***************************************************************************)
(* Feishu long-connection gateway (extensions/feishu/src/gateway.ts) and   *)
(* its caller (extensions/feishu/src/channel.ts) as a state machine.       *)
(*                                                                         *)
(* Node runs every callback to completion, so each action below is one     *)
(* callback or one exported call: startGateway, stopGateway, the abort     *)
(* listener(s) of a signal, the im.message.receive_v1 handler, one         *)
(* setImmediate turn, and the settling of one onMessage promise.           *)
(* Date.now() is the variable now, advanced by Tick.                       *)
(***************************************************************************)
EXTENDS Integers, Sequences, FiniteSets, Bags, TLC

\* ------------------------------------------------------------------ bounds
MaxTicks == 1
MaxHandles == 2
MaxEvents == 3

\* --------------------------------------------------------- program constants
MESSAGE_DEDUPE_TTL_MS == 60 * 1000
MESSAGE_EXPIRE_TTL_MS == 30 * 60 * 1000
DEDUPE_CLEANUP_SIZE == 100

\* ------------------------------------------------------------ input domains
Accounts == {"a1", "a2"}
Signals == {"s1", "s2"}
NoSignal == "none"
Undefined == "undefined"
\* message.message_id as the platform sends it (a string, or missing)
RawIds == {Undefined, "", "E1"}
MessageIds == {"", "E1"}
\* what the SDK's WSClient object offers: close(), close() and stop(), only
\* stop(), or neither
SdkApis == {"close", "both", "stop", "none"}
\* Date.now() when the process starts, and the steps the clock makes
StartNow == 40 * 60 * 1000
TickSteps == {MESSAGE_DEDUPE_TTL_MS, MESSAGE_DEDUPE_TTL_MS + 1}
\* entries already in processedMessages at the start: ids seen once, at StartNow
Prefills == {0, DEDUPE_CLEANUP_SIZE - 1}

\* ------------------------------------------------------------------ strings
\* A string is a sequence of one-character strings.
Digits == <<"0", "1", "2", "3", "4", "5", "6", "7", "8", "9">>
IsDigit(c) == \E i \in 1..10 : Digits[i] = c
DigitVal(c) == (CHOOSE i \in 1..10 : Digits[i] = c) - 1
IsSpace(c) == c = " "

RECURSIVE ToDigits(_)
\* String(n) for a natural number n
ToDigits(n) ==
    IF n < 10 THEN <<Digits[n + 1]>>
    ELSE ToDigits(n \div 10) \o <<Digits[(n % 10) + 1]>>

RECURSIVE SkipSpaces(_)
SkipSpaces(s) ==
    IF s # <<>> /\ IsSpace(Head(s)) THEN SkipSpaces(Tail(s)) ELSE s

RECURSIVE DigitPrefix(_, _, _)
\* the value of the longest run of decimal digits s starts with;
\* any is whether there was a digit at all
DigitPrefix(s, acc, any) ==
    IF s # <<>> /\ IsDigit(Head(s))
    THEN DigitPrefix(Tail(s), acc * 10 + DigitVal(Head(s)), TRUE)
    ELSE [nan |-> ~any, val |-> acc]

\* parseInt(s, 10): leading white space is skipped, one sign is taken, the
\* digits that follow are read and whatever comes after them is ignored;
\* NaN when no digit is found.
ParseInt(s) ==
    LET t == SkipSpaces(s)
        neg == t # <<>> /\ Head(t) = "-"
        u == IF t # <<>> /\ Head(t) \in {"-", "+"} THEN Tail(t) ELSE t
        p == DigitPrefix(u, 0, FALSE)
    IN  [nan |-> p.nan, val |-> IF neg THEN 0 - p.val ELSE p.val]

\* ------------------------------------------------------------ dedupe cache
\* processedMessages is held in two parts: pm maps the ids the model follows
\* to their timestamps, other is the bag of timestamps of the remaining
\* entries (ids that are seen once and never again).
DedupeSize(pm, other) == Cardinality(DOMAIN pm) + BagCardinality(other)

CleanupKeepsGe(pm, other, t) ==
    [ids |-> [i \in {j \in DOMAIN pm : ~(t - pm[j] >= MESSAGE_DEDUPE_TTL_MS)} |-> pm[i]],
     other |-> [x \in {y \in DOMAIN other : ~(t - y >= MESSAGE_DEDUPE_TTL_MS)} |-> other[x]]]

cleanupDedupeCache(pm, other, t) ==
    [ids |-> [i \in {j \in DOMAIN pm : ~(t - pm[j] > MESSAGE_DEDUPE_TTL_MS)} |-> pm[i]],
     other |-> [x \in {y \in DOMAIN other : ~(t - y > MESSAGE_DEDUPE_TTL_MS)} |-> other[x]]]

IsDuplicateNeverTrue(pm, other, messageId, t) ==
    LET set == [i \in DOMAIN pm \cup {messageId} |-> IF i = messageId THEN t ELSE pm[i]]
    IN  [ret |-> FALSE, ids |-> set, other |-> other, cleaned |-> FALSE]

\* isDuplicateMessage without the cleanup
IsDuplicateNeverCleans(pm, other, messageId, t) ==
    IF messageId \in DOMAIN pm
    THEN [ret |-> TRUE, ids |-> pm, other |-> other, cleaned |-> FALSE]
    ELSE LET set == [i \in DOMAIN pm \cup {messageId} |->
                        IF i = messageId THEN t ELSE pm[i]]
         IN  [ret |-> FALSE, ids |-> set, other |-> other, cleaned |-> FALSE]

\* isDuplicateMessage that cleans up after every insertion, whatever the size
IsDuplicateAlwaysCleans(pm, other, messageId, t) ==
    IF messageId \in DOMAIN pm
    THEN [ret |-> TRUE, ids |-> pm, other |-> other, cleaned |-> FALSE]
    ELSE LET set == [i \in DOMAIN pm \cup {messageId} |->
                        IF i = messageId THEN t ELSE pm[i]]
             c == cleanupDedupeCache(set, other, t)
         IN  [ret |-> FALSE, ids |-> c.ids, other |-> c.other, cleaned |-> TRUE]

\* isDuplicateMessage at time t: the result and the cache afterwards
isDuplicateMessage(pm, other, messageId, t) ==
    IF messageId \in DOMAIN pm
    THEN [ret |-> TRUE, ids |-> pm, other |-> other, cleaned |-> FALSE]
    ELSE LET set == [i \in DOMAIN pm \cup {messageId} |->
                        IF i = messageId THEN t ELSE pm[i]]
         IN  IF DedupeSize(set, other) > DEDUPE_CLEANUP_SIZE
             THEN LET c == cleanupDedupeCache(set, other, t)
                  IN  [ret |-> FALSE, ids |-> c.ids, other |-> c.other, cleaned |-> TRUE]
             ELSE [ret |-> FALSE, ids |-> set, other |-> other, cleaned |-> FALSE]

\* ---------------------------------------------------------------- staleness
\* create_time is a string or missing: [present, str]
Absent == [present |-> FALSE, str |-> <<>>]
Str(s) == [present |-> TRUE, str |-> s]

isMessageExpired(createTimeMs, t) ==
    IF ~createTimeMs.present \/ createTimeMs.str = <<>> THEN FALSE
    ELSE LET createTime == ParseInt(createTimeMs.str)
         IN  IF createTime.nan THEN FALSE
             ELSE t - createTime.val > MESSAGE_EXPIRE_TTL_MS

\* --------------------------------------------------------------- JSON.parse
EmptyFn == [x \in {} |-> 0]
Q == "\""
\* a parsed value: kind is "string", "number", "null" or "object"; val is the
\* text of a string or the digits of a number; members maps the keys of an
\* object to parsed values
JsonFail == [ok |-> FALSE]
JsonScalar(kind, val, next) ==
    [ok |-> TRUE, kind |-> kind, val |-> val, members |-> EmptyFn, next |-> next]

RECURSIVE ReadStringBody(_, _, _)
\* s[i] follows an opening quote: the characters up to the closing quote
\* (the inputs carry no escape sequence)
ReadStringBody(s, i, acc) ==
    IF i > Len(s) THEN JsonFail
    ELSE IF s[i] = Q THEN JsonScalar("string", acc, i + 1)
    ELSE ReadStringBody(s, i + 1, acc \o s[i])

RECURSIVE ReadDigits(_, _, _)
ReadDigits(s, i, acc) ==
    IF i <= Len(s) /\ IsDigit(s[i]) THEN ReadDigits(s, i + 1, acc \o s[i])
    ELSE JsonScalar("number", acc, i)

\* a string, a number or null starting at s[i]
ReadScalar(s, i) ==
    IF i > Len(s) THEN JsonFail
    ELSE IF s[i] = Q THEN ReadStringBody(s, i + 1, "")
    ELSE IF IsDigit(s[i]) THEN ReadDigits(s, i, "")
    ELSE IF i + 3 <= Len(s) /\ SubSeq(s, i, i + 3) = <<"n", "u", "l", "l">>
    THEN JsonScalar("null", "", i + 4)
    ELSE JsonFail

RECURSIVE ReadMembers(_, _, _)
\* "key":value pairs separated by commas, up to the closing brace; a key
\* given twice keeps its last value
ReadMembers(s, i, members) ==
    IF i > Len(s) \/ s[i] # Q THEN JsonFail
    ELSE LET key == ReadStringBody(s, i + 1, "")
         IN  IF ~key.ok \/ key.next > Len(s) \/ s[key.next] # ":" THEN JsonFail
             ELSE LET v == ReadScalar(s, key.next + 1)
                  IN  IF ~v.ok \/ v.next > Len(s) THEN JsonFail
                      ELSE LET ms == [k \in DOMAIN members \cup {key.val} |->
                                        IF k = key.val
                                        THEN [kind |-> v.kind, val |-> v.val]
                                        ELSE members[k]]
                           IN  IF s[v.next] = ","
                               THEN ReadMembers(s, v.next + 1, ms)
                               ELSE IF s[v.next] = "}"
                               THEN [ok |-> TRUE, kind |-> "object", val |-> "",
                                     members |-> ms, next |-> v.next + 1]
                               ELSE JsonFail

\* JSON.parse(s) for objects of scalars and for scalars, without white
\* space: ok is FALSE where JSON.parse throws SyntaxError
ParseJson(s) ==
    LET v == IF s = <<>> THEN JsonFail
             ELSE IF s[1] = "{"
             THEN IF Len(s) >= 2 /\ s[2] = "}"
                  THEN [ok |-> TRUE, kind |-> "object", val |-> "",
                        members |-> EmptyFn, next |-> 3]
                  ELSE ReadMembers(s, 2, EmptyFn)
             ELSE ReadScalar(s, 1)
    IN  IF v.ok /\ v.next = Len(s) + 1 THEN v ELSE JsonFail

UndefinedValue == [kind |-> "undefined", val |-> ""]

\* parsed.text: reading a property of null throws TypeError, of a string or
\* a number gives undefined
TextMember(parsed) ==
    IF parsed.kind = "null" THEN [threw |-> TRUE, value |-> UndefinedValue]
    ELSE IF parsed.kind = "object" /\ "text" \in DOMAIN parsed.members
    THEN [threw |-> FALSE, value |-> parsed.members["text"]]
    ELSE [threw |-> FALSE, value |-> UndefinedValue]

\* a JavaScript value in a condition
Truthy(v) ==
    \/ v.kind = "string" /\ v.val # ""
    \/ v.kind = "number" /\ v.val # "0"

\* message.content values
\* {"text":"hi"}
ContentHi ==
    <<"{", Q, "t", "e", "x", "t", Q, ":", Q, "h", "i", Q, "}">>
\* not-json
ContentNotJson ==
    <<"n", "o", "t", "-", "j", "s", "o", "n">>
\* {}
ContentEmptyObject ==
    <<"{", "}">>
\* {"text":""}
ContentEmptyText ==
    <<"{", Q, "t", "e", "x", "t", Q, ":", Q, Q, "}">>
\* null
ContentNull ==
    <<"n", "u", "l", "l">>
\* {"text":"hi"
ContentTruncated ==
    <<"{", Q, "t", "e", "x", "t", Q, ":", Q, "h", "i", Q>>
\* {"text":5}
ContentNumber ==
    <<"{", Q, "t", "e", "x", "t", Q, ":", "5", "}">>
\* {"image_key":"k","text":"hi"}
ContentImage ==
    <<"{", Q, "i", "m", "a", "g", "e", "_", "k", "e", "y", Q, ":", Q, "k", Q,
      ",", Q, "t", "e", "x", "t", Q, ":", Q, "h", "i", Q, "}">>

\* ---------------------------------------------------------------- variables
VARIABLES
    now,                \* Date.now()
    ticks,              \* how many times the clock has advanced
    processedMessages,  \* the followed ids of processedMessages: id -> timestamp
    otherEntries,       \* the other entries of processedMessages: bag of timestamps
    sdkApi,             \* which of close/stop a WSClient object has
    wsClientCache,      \* accountId -> handle
    conns,              \* handle -> the WSClient object made by one startGateway call
    aborted,            \* signal -> has it fired
    listeners,          \* abort listeners still registered: [signal, account, handle]
    immediates,         \* the setImmediate queue of admitted messages
    inflight,           \* messages whose onMessage promise is pending
    errorLog,           \* logger.error lines
    expiredLog,         \* logger.info "Skipping expired message" lines
    crashed,            \* an exception escaped a callback (uncaughtException)
    events,             \* handler invocations so far (each gets this serial)
    seen,               \* id -> counts of inserts, inserts dropped as expired, handings
    invoked,            \* id -> onMessage invocations
    firstSeen,          \* id -> time of the first isDuplicateMessage call, -1 if none
    lastDup,            \* the last delivery that reached isDuplicateMessage
    lastInvoke,         \* the last onMessage invocation
    lastCall,           \* the last startGateway / stopGateway / abort / settle
    calls,              \* handle -> the signal its call was given, listener runs
    clientCache,        \* client.ts clientCache: the appIds that have a lark.Client
    lastSend,           \* the last sendTextMessage / replyTextMessage call
    lastEvent,          \* the body of the last event the handler admitted
    lastDispatch,       \* what the last onMessage call did with its message
    lastDeliver         \* the last call of the deliver callback

vars == <<now, ticks, processedMessages, otherEntries, sdkApi, wsClientCache,
          conns, aborted, listeners, immediates, inflight, errorLog, expiredLog,
          crashed, events, seen, invoked, firstSeen, lastDup,
          lastInvoke, lastCall, calls, clientCache, lastSend, lastEvent,
          lastDispatch, lastDeliver>>

clientVars == <<clientCache, lastSend>>
channelVars == <<lastDispatch, lastDeliver>>
dedupeVars == <<processedMessages, otherEntries>>
registryVars == <<wsClientCache, conns, listeners, aborted>>
dispatchVars == <<immediates, inflight, errorLog, crashed>>
eventGhosts == <<events, seen, invoked, firstSeen, lastDup, lastInvoke, expiredLog,
                lastEvent>>

NoCall == [op |-> "none", account |-> "", signal |-> NoSignal, handle |-> 0, old |-> 0,
           hadHandle |-> FALSE, raised |-> FALSE, method |-> "none",
           hadEntryAtCreate |-> FALSE, flip |-> FALSE]
\* where an event without message id came from; unset for the others
NoOrigin == [chat_id |-> Undefined, sender_open_id |-> Undefined, content |-> Absent]
NoDup == [id |-> "", ret |-> FALSE, first |-> FALSE, withinTtl |-> FALSE,
          live |-> FALSE, stale |-> FALSE, handed |-> FALSE,
          valid |-> FALSE, origin |-> NoOrigin]
NoRet == [ok |-> FALSE, error |-> Undefined]
NoSend == [op |-> "none", appId |-> "", target |-> "", text |-> "",
           cached |-> FALSE, construct |-> "ok", response |-> [kind |-> "none"],
           request |-> [sent |-> FALSE], rejected |-> FALSE, ret |-> NoRet]
\* serial is 0 until an event is admitted, 1 from then on
NoEvent == [serial |-> 0]
NoDispatch == [serial |-> 0]
NoDeliver == [serial |-> 0]
NoInvoke == [serial |-> 0, id |-> "", stale |-> FALSE, acked |-> FALSE,
             torn |-> FALSE]

Init ==
    /\ now = StartNow
    /\ ticks = 0
    /\ processedMessages = EmptyFn
    /\ \E n \in Prefills :
          otherEntries = IF n = 0 THEN EmptyBag ELSE [x \in {StartNow} |-> n]
    /\ sdkApi \in SdkApis
    /\ wsClientCache = EmptyFn
    /\ conns = EmptyFn
    /\ aborted = [s \in Signals |-> FALSE]
    /\ listeners = {}
    /\ immediates = <<>>
    /\ inflight = {}
    /\ errorLog = 0
    /\ expiredLog = 0
    /\ crashed = FALSE
    /\ events = 0
    /\ seen = [i \in MessageIds |-> [inserts |-> 0, dropped |-> 0, handed |-> 0]]
    /\ invoked = [i \in MessageIds |-> 0]
    /\ firstSeen = [i \in MessageIds |-> -1]
    /\ lastDup = NoDup
    /\ lastInvoke = NoInvoke
    /\ lastCall = NoCall
    /\ calls = EmptyFn
    /\ clientCache = {}
    /\ lastSend = NoSend
    /\ lastEvent = NoEvent
    /\ lastDispatch = NoDispatch
    /\ lastDeliver = NoDeliver

\* --------------------------------------------------------------------- clock
Tick ==
    /\ ~crashed
    /\ ticks < MaxTicks
    /\ \E d \in TickSteps : now' = now + d
    /\ ticks' = ticks + 1
    /\ UNCHANGED <<dedupeVars, sdkApi, registryVars, dispatchVars, eventGhosts,
                   lastCall, calls>>
    /\ UNCHANGED <<clientVars, channelVars>>

\* ------------------------------------------------------------ stopGateway
HasClose(api) == api \in {"close", "both"}
HasStop(api) == api \in {"stop", "both"}

\* the try block of stopGateway on handle h: which method is called, whether
\* it threw, and the connection afterwards. outcome is what the SDK method
\* does: "ok" closes the connection, "throw" throws and leaves it open.
CloseBlock(cn, h, api, outcome) ==
    LET method == IF HasClose(api) THEN "close" ELSE IF HasStop(api) THEN "stop" ELSE "none"
    IN  [method |-> method,
         threw |-> method # "none" /\ outcome = "throw",
         conns |-> IF method = "none" THEN cn
                   ELSE [cn EXCEPT ![h].closeCalls = @ + 1,
                                   ![h].open = IF outcome = "ok" THEN FALSE ELSE @]]

Remove(cache, accountId) == [a \in DOMAIN cache \ {accountId} |-> cache[a]]

\* stopGateway without its try/catch
StopGatewayNoCatch(cache, cn, api, accountId, outcome) ==
    IF accountId \in DOMAIN cache
    THEN LET b == CloseBlock(cn, cache[accountId], api, outcome)
         IN  IF b.threw
             THEN [cache |-> cache, conns |-> b.conns, raised |-> TRUE,
                   method |-> b.method, hadHandle |-> TRUE]
             ELSE [cache |-> Remove(cache, accountId), conns |-> b.conns,
                   raised |-> FALSE, method |-> b.method, hadHandle |-> TRUE]
    ELSE [cache |-> cache, conns |-> cn, raised |-> FALSE, method |-> "none",
          hadHandle |-> FALSE]

\* stopGateway that closes but forgets wsClientCache.delete
StopGatewayNoDelete(cache, cn, api, accountId, outcome) ==
    IF accountId \in DOMAIN cache
    THEN LET b == CloseBlock(cn, cache[accountId], api, outcome)
         IN  [cache |-> cache, conns |-> b.conns, raised |-> FALSE,
              method |-> b.method, hadHandle |-> TRUE]
    ELSE [cache |-> cache, conns |-> cn, raised |-> FALSE, method |-> "none",
          hadHandle |-> FALSE]

\* stopGateway(accountId): the registry and the connections afterwards,
\* whether an exception left the function, and which SDK method it called
stopGateway(cache, cn, api, accountId, outcome) ==
    IF accountId \in DOMAIN cache
    THEN LET b == CloseBlock(cn, cache[accountId], api, outcome)
             \* catch { }: whatever the try block threw is discarded
         IN  [cache |-> Remove(cache, accountId), conns |-> b.conns,
              raised |-> FALSE, method |-> b.method, hadHandle |-> TRUE]
    ELSE [cache |-> cache, conns |-> cn, raised |-> FALSE, method |-> "none",
          hadHandle |-> FALSE]

\* ------------------------------------------------------------ startGateway
NewClient(accountId) == [account |-> accountId, open |-> TRUE, closeCalls |-> 0]

\* abortSignal.addEventListener("abort", ..., {once: true}); a missing signal
\* registers nothing
AddAbortListenerNever(ls, signal, accountId, h) == ls

AddAbortListener(ls, signal, accountId, h) ==
    IF signal = NoSignal THEN ls
    ELSE ls \cup {[signal |-> signal, account |-> accountId, handle |-> h]}

\* startGateway that does not stop the handle it replaces
StartGatewayNoStop(cache, cn, ls, api, accountId, signal, h, outcome) ==
    [cache |-> [a \in DOMAIN cache \cup {accountId} |->
                  IF a = accountId THEN h ELSE cache[a]],
     conns |-> [x \in DOMAIN cn \cup {h} |->
                  IF x = h THEN NewClient(accountId) ELSE cn[x]],
     listeners |-> AddAbortListener(ls, signal, accountId, h),
     raised |-> FALSE, method |-> "none",
     hadHandle |-> accountId \in DOMAIN cache,
     hadEntryAtCreate |-> accountId \in DOMAIN cache,
     created |-> TRUE]

\* startGateway(options) making handle h
startGateway(cache, cn, ls, api, accountId, signal, h, outcome) ==
    LET existing == accountId \in DOMAIN cache
        s == IF existing THEN stopGateway(cache, cn, api, accountId, outcome)
             ELSE [cache |-> cache, conns |-> cn, raised |-> FALSE,
                   method |-> "none", hadHandle |-> FALSE]
    IN  IF s.raised
        THEN \* the exception leaves startGateway: nothing is created
             [cache |-> s.cache, conns |-> s.conns, listeners |-> ls,
              raised |-> TRUE, method |-> s.method, hadHandle |-> existing,
              hadEntryAtCreate |-> FALSE, created |-> FALSE]
        ELSE [cache |-> [a \in DOMAIN s.cache \cup {accountId} |->
                            IF a = accountId THEN h ELSE s.cache[a]],
              conns |-> [x \in DOMAIN s.conns \cup {h} |->
                            IF x = h THEN NewClient(accountId) ELSE s.conns[x]],
              listeners |-> AddAbortListener(ls, signal, accountId, h),
              raised |-> FALSE, method |-> s.method, hadHandle |-> existing,
              \* was the account still registered when new WSClient ran
              hadEntryAtCreate |-> accountId \in DOMAIN s.cache,
              created |-> TRUE]

Flip == ~lastCall.flip

\* wsClientCache.get(accountId), 0 for undefined
Registered(cache, accountId) ==
    IF accountId \in DOMAIN cache THEN cache[accountId] ELSE 0

\* feishuPlugin.gateway.startAccount -> startGateway
StartGateway(accountId, signal, outcome) ==
    /\ ~crashed
    /\ Cardinality(DOMAIN conns) < MaxHandles
    /\ \E h \in {Cardinality(DOMAIN conns) + 1} :
       \E r \in {startGateway(wsClientCache, conns, listeners, sdkApi, accountId,
                               signal, h, outcome)} :
           /\ wsClientCache' = r.cache
           /\ conns' = r.conns
           /\ listeners' = r.listeners
           /\ calls' = IF r.created
                       THEN [x \in DOMAIN calls \cup {h} |->
                               IF x = h
                               THEN [signal |-> signal, account |-> accountId,
                                     live |-> signal # NoSignal /\ ~aborted[signal],
                                     runs |-> 0]
                               ELSE calls[x]]
                       ELSE calls
           /\ lastCall' = [op |-> "startGateway", account |-> accountId,
                           signal |-> signal, handle |-> IF r.created THEN h ELSE 0,
                           old |-> Registered(wsClientCache, accountId),
                           hadHandle |-> r.hadHandle, raised |-> r.raised,
                           method |-> r.method,
                           hadEntryAtCreate |-> r.hadEntryAtCreate, flip |-> Flip]
    /\ UNCHANGED <<now, ticks, dedupeVars, sdkApi, aborted, dispatchVars, eventGhosts>>
    /\ UNCHANGED <<clientVars, channelVars>>

StopGateway(accountId, outcome) ==
    /\ ~crashed
    /\ \E r \in {stopGateway(wsClientCache, conns, sdkApi, accountId, outcome)} :
           /\ wsClientCache' = r.cache
           /\ conns' = r.conns
           /\ lastCall' = [op |-> "stopGateway", account |-> accountId,
                           signal |-> NoSignal, handle |-> 0,
                           old |-> Registered(wsClientCache, accountId),
                           hadHandle |-> r.hadHandle, raised |-> r.raised,
                           method |-> r.method, hadEntryAtCreate |-> FALSE,
                           flip |-> Flip]
    /\ UNCHANGED <<now, ticks, dedupeVars, sdkApi, listeners, aborted, dispatchVars,
                   eventGhosts, calls>>
    /\ UNCHANGED <<clientVars, channelVars>>

\* ------------------------------------------------------------ abort listener
RECURSIVE RunAbortListenersOwnHandle(_, _, _, _, _)
\* abort listeners that close the WSClient of their own startGateway call
\* instead of calling stopGateway(cacheKey)
RunAbortListenersOwnHandle(cache, cn, api, todo, outcomes) ==
    IF todo = {} THEN [cache |-> cache, conns |-> cn, raised |-> FALSE]
    ELSE LET l == CHOOSE x \in todo : \A y \in todo : x.handle <= y.handle
             b == CloseBlock(cn, l.handle, api, outcomes[l.account])
             c == IF Registered(cache, l.account) = l.handle
                  THEN Remove(cache, l.account) ELSE cache
             rest == RunAbortListenersOwnHandle(c, b.conns, api, todo \ {l}, outcomes)
         IN  [cache |-> rest.cache, conns |-> rest.conns, raised |-> rest.raised]

RECURSIVE RunAbortListeners(_, _, _, _, _)
\* the listeners in todo run in the order they were added (handles are
\* numbered in that order); each one calls stopGateway(cacheKey)
RunAbortListeners(cache, cn, api, todo, outcomes) ==
    IF todo = {} THEN [cache |-> cache, conns |-> cn, raised |-> FALSE]
    ELSE LET l == CHOOSE x \in todo : \A y \in todo : x.handle <= y.handle
             r == stopGateway(cache, cn, api, l.account, outcomes[l.account])
             rest == RunAbortListeners(r.cache, r.conns, api, todo \ {l}, outcomes)
         IN  [cache |-> rest.cache, conns |-> rest.conns,
              raised |-> r.raised \/ rest.raised]

\* the signal fires: AbortSignal dispatches "abort" once, to the listeners
\* registered at that moment, each of which is then removed ({once: true})
Abort(signal, outcomes) ==
    /\ ~crashed
    /\ ~aborted[signal]
    /\ \E todo \in {{l \in listeners : l.signal = signal}} :
       \E r \in {RunAbortListeners(wsClientCache, conns, sdkApi, todo, outcomes)} :
           /\ wsClientCache' = r.cache
           /\ conns' = r.conns
           /\ listeners' = listeners \ todo
           /\ crashed' = r.raised
           /\ calls' = [h \in DOMAIN calls |->
                          IF \E l \in todo : l.handle = h
                          THEN [calls[h] EXCEPT !.runs = @ + 1] ELSE calls[h]]
    /\ aborted' = [aborted EXCEPT ![signal] = TRUE]
    /\ lastCall' = [op |-> "abort", account |-> "", signal |-> signal, handle |-> 0,
                    old |-> 0,
                    hadHandle |-> FALSE, raised |-> FALSE, method |-> "none",
                    hadEntryAtCreate |-> FALSE, flip |-> Flip]
    /\ UNCHANGED <<now, ticks, dedupeVars, sdkApi, immediates, inflight, errorLog,
                   eventGhosts>>
    /\ UNCHANGED <<clientVars, channelVars>>

\* ------------------------------------------------- im.message.receive_v1
\* x || ""
OrEmpty(x) == IF x = Undefined \/ x = "" THEN "" ELSE x

Garbage == <<"a", "b", "c">>
DigitsThenGarbage == <<"1", "2", "a", "b">>
FortyMinutes == 40 * 60 * 1000

\* create_time values an event may carry at time t, each with the creation
\* time (ms) the sender meant by it, when it is a timestamp at all
CreateTimes(t) ==
    {[raw |-> Absent, known |-> FALSE, ms |-> 0],
     [raw |-> Str(<<>>), known |-> FALSE, ms |-> 0],
     [raw |-> Str(Garbage), known |-> FALSE, ms |-> 0],
     [raw |-> Str(DigitsThenGarbage), known |-> FALSE, ms |-> 0]}
    \cup {[raw |-> Str(ToDigits(t - d)), known |-> TRUE, ms |-> t - d] :
            d \in {MESSAGE_EXPIRE_TTL_MS, MESSAGE_EXPIRE_TTL_MS + 1, FortyMinutes}}

\* a text event "hi" from user ou_1 in the peer-to-peer chat oc_1
TextEvent(i, c) ==
    [hasMessage |-> TRUE, message_id |-> i, create_time |-> c,
     chat_id |-> "oc_1", chat_type |-> "p2p", sender_open_id |-> "ou_1",
     message_type |-> "text", content |-> Str(ContentHi)]

\* the events the platform may deliver at time t
Deliveries(t) ==
    {[TextEvent(Undefined, [raw |-> Absent, known |-> FALSE, ms |-> 0])
        EXCEPT !.hasMessage = FALSE]}
    \cup {TextEvent(i, c) : i \in RawIds, c \in CreateTimes(t)}

\* the text parse without its try/catch
ParseTextNoCatch(content) ==
    LET parsed == ParseJson(content)
    IN  IF ~parsed.ok THEN [threw |-> TRUE, value |-> UndefinedValue]
        ELSE [threw |-> TextMember(parsed).threw, value |-> TextMember(parsed).value]

\* the text field of FeishuMessage: JSON.parse(content).text inside
\* try/catch, which leaves the field unset when either step throws
ParseText(content) ==
    LET parsed == ParseJson(content)
    IN  IF ~parsed.ok THEN [threw |-> FALSE, value |-> UndefinedValue]
        ELSE [threw |-> FALSE,
              value |-> IF TextMember(parsed).threw THEN UndefinedValue
                        ELSE TextMember(parsed).value]

\* the FeishuMessage the handler builds from the event; threw is whether
\* building it raised an exception
normalizeMessage(data, messageId) ==
    LET messageType == OrEmpty(data.message_type)
        content == IF data.content.present THEN data.content.str ELSE <<>>
        t == IF messageType = "text" THEN ParseText(content)
             ELSE [threw |-> FALSE, value |-> UndefinedValue]
    IN  [threw |-> t.threw,
         message |-> [messageId |-> messageId,
                      chatId |-> OrEmpty(data.chat_id),
                      chatType |-> IF data.chat_type = "p2p" THEN "p2p" ELSE "group",
                      senderId |-> OrEmpty(data.sender_open_id),
                      messageType |-> messageType,
                      content |-> content,
                      text |-> t.value]]

\* the handler awaits onMessage itself instead of deferring it
ScheduleInline(st, msg) ==
    [st EXCEPT !.invokedNow = Append(@, msg), !.trace = Append(@, "invoke")]

\* setImmediate(async () => {...}): the continuation is queued for a later turn
ScheduleDispatch(st, msg) == [st EXCEPT !.queue = Append(@, msg)]

\* the handler without its staleness check
ReceiveHandlerNoExpiry(pm, other, q, data, t, serial, accountId) ==
    LET messageId == OrEmpty(data.message_id)
        d == isDuplicateMessage(pm, other, messageId, t)
        st == [ids |-> d.ids, other |-> d.other, queue |-> q, invokedNow |-> <<>>,
               trace |-> <<>>, outcome |-> "duplicate", messageId |-> messageId,
               dup |-> d.ret, cleaned |-> d.cleaned, expiredLines |-> 0]
        n == normalizeMessage(data, messageId)
        msg == [messageId |-> messageId, account |-> accountId, serial |-> serial,
                stale |-> data.create_time.known
                          /\ t - data.create_time.ms > MESSAGE_EXPIRE_TTL_MS,
                feishu |-> n.message]
    IN  IF ~data.hasMessage
        THEN [ids |-> pm, other |-> other, queue |-> q, invokedNow |-> <<>>,
              trace |-> <<"ack">>, outcome |-> "nomessage", messageId |-> "",
              dup |-> FALSE, cleaned |-> FALSE, expiredLines |-> 0]
        ELSE IF d.ret THEN [st EXCEPT !.trace = Append(@, "ack")]
        ELSE IF n.threw THEN [st EXCEPT !.outcome = "threw"]
        ELSE [ScheduleDispatch(st, msg) EXCEPT !.outcome = "admitted",
                                               !.trace = Append(@, "ack")]

\* the handler when the lookup is skipped for an empty id: the id is
\* recorded, and never found
ReceiveHandlerIdlessNeverDuplicate(pm, other, q, data, t, serial, accountId) ==
    LET messageId == OrEmpty(data.message_id)
        d == IF messageId = "" THEN IsDuplicateNeverTrue(pm, other, messageId, t)
             ELSE isDuplicateMessage(pm, other, messageId, t)
        st == [ids |-> d.ids, other |-> d.other, queue |-> q, invokedNow |-> <<>>,
               trace |-> <<>>, outcome |-> "duplicate", messageId |-> messageId,
               dup |-> d.ret, cleaned |-> d.cleaned, expiredLines |-> 0]
        n == normalizeMessage(data, messageId)
        msg == [messageId |-> messageId, account |-> accountId, serial |-> serial,
                stale |-> data.create_time.known
                          /\ t - data.create_time.ms > MESSAGE_EXPIRE_TTL_MS,
                feishu |-> n.message]
    IN  IF ~data.hasMessage
        THEN [ids |-> pm, other |-> other, queue |-> q, invokedNow |-> <<>>,
              trace |-> <<"ack">>, outcome |-> "nomessage", messageId |-> "",
              dup |-> FALSE, cleaned |-> FALSE, expiredLines |-> 0]
        ELSE IF d.ret THEN [st EXCEPT !.trace = Append(@, "ack")]
        ELSE IF isMessageExpired(data.create_time.raw, t)
        THEN [st EXCEPT !.outcome = "expired", !.expiredLines = 1,
                        !.trace = Append(@, "ack")]
        ELSE IF n.threw THEN [st EXCEPT !.outcome = "threw"]
        ELSE [ScheduleDispatch(st, msg) EXCEPT !.outcome = "admitted",
                                               !.trace = Append(@, "ack")]

\* the handler with its two checks in the other order: staleness first,
\* then dedupe
ReceiveHandlerExpiryFirst(pm, other, q, data, t, serial, accountId) ==
    LET messageId == OrEmpty(data.message_id)
        d == isDuplicateMessage(pm, other, messageId, t)
        st == [ids |-> d.ids, other |-> d.other, queue |-> q, invokedNow |-> <<>>,
               trace |-> <<>>, outcome |-> "duplicate", messageId |-> messageId,
               dup |-> d.ret, cleaned |-> d.cleaned, expiredLines |-> 0]
        n == normalizeMessage(data, messageId)
        msg == [messageId |-> messageId, account |-> accountId, serial |-> serial,
                stale |-> data.create_time.known
                          /\ t - data.create_time.ms > MESSAGE_EXPIRE_TTL_MS,
                feishu |-> n.message]
    IN  IF ~data.hasMessage
        THEN [ids |-> pm, other |-> other, queue |-> q, invokedNow |-> <<>>,
              trace |-> <<"ack">>, outcome |-> "nomessage", messageId |-> "",
              dup |-> FALSE, cleaned |-> FALSE, expiredLines |-> 0]
        ELSE IF isMessageExpired(data.create_time.raw, t)
        THEN [ids |-> pm, other |-> other, queue |-> q, invokedNow |-> <<>>,
              trace |-> <<"ack">>, outcome |-> "expired", messageId |-> messageId,
              dup |-> messageId \in DOMAIN pm, cleaned |-> FALSE, expiredLines |-> 1]
        ELSE IF d.ret THEN [st EXCEPT !.trace = Append(@, "ack")]
        ELSE [ScheduleDispatch(st, msg) EXCEPT !.outcome = "admitted",
                                               !.trace = Append(@, "ack")]

\* the handler body for one delivery at time t: the cache and the queue
\* afterwards and what it did, "ack" being its return of {}
receiveHandler(pm, other, q, data, t, serial, accountId) ==
    LET messageId == OrEmpty(data.message_id)
        d == isDuplicateMessage(pm, other, messageId, t)
        st == [ids |-> d.ids, other |-> d.other, queue |-> q, invokedNow |-> <<>>,
               trace |-> <<>>, outcome |-> "duplicate", messageId |-> messageId,
               dup |-> d.ret, cleaned |-> d.cleaned, expiredLines |-> 0]
        n == normalizeMessage(data, messageId)
        \* feishu is the FeishuMessage; the other fields are not part of it:
        \* the account and the serial of the delivery, and whether the event
        \* was older than the staleness window when it was handled
        msg == [messageId |-> messageId, account |-> accountId, serial |-> serial,
                stale |-> data.create_time.known
                          /\ t - data.create_time.ms > MESSAGE_EXPIRE_TTL_MS,
                feishu |-> n.message]
    IN  IF ~data.hasMessage
        THEN [ids |-> pm, other |-> other, queue |-> q, invokedNow |-> <<>>,
              trace |-> <<"ack">>, outcome |-> "nomessage", messageId |-> "",
              dup |-> FALSE, cleaned |-> FALSE, expiredLines |-> 0]
        ELSE IF d.ret THEN [st EXCEPT !.trace = Append(@, "ack")]
        ELSE IF isMessageExpired(data.create_time.raw, t)
        THEN [st EXCEPT !.outcome = "expired", !.expiredLines = 1,
                        !.trace = Append(@, "ack")]
        \* an exception that leaves the handler: nothing is scheduled
        ELSE IF n.threw THEN [st EXCEPT !.outcome = "threw"]
        ELSE [ScheduleDispatch(st, msg) EXCEPT !.outcome = "admitted",
                                               !.trace = Append(@, "ack")]

\* in a handler's trace, does "ack" come before every "invoke"
AckedBeforeInvoke(trace) ==
    \A k \in 1..Len(trace) :
        trace[k] = "invoke" => \E j \in 1..(k - 1) : trace[j] = "ack"

\* an open connection delivers an event to the handler its startGateway
\* call registered
HandleEvent(h, data) ==
    /\ ~crashed
    /\ events < MaxEvents
    /\ h \in DOMAIN conns /\ conns[h].open
    /\ \E r \in {receiveHandler(processedMessages, otherEntries, immediates, data,
                                now, events + 1, conns[h].account)} :
         LET serial == events + 1
             i == r.messageId
             called == r.outcome # "nomessage"
             handedNow == (Len(r.queue) - Len(immediates)) + Len(r.invokedNow)
         IN  /\ processedMessages' = r.ids
             /\ otherEntries' = r.other
             /\ immediates' = r.queue
             /\ inflight' = inflight \cup {r.invokedNow[k] : k \in 1..Len(r.invokedNow)}
             /\ expiredLog' = expiredLog + r.expiredLines
             /\ events' = serial
             /\ lastEvent' = IF r.outcome = "admitted"
                             THEN [serial |-> 1, chat_id |-> data.chat_id,
                                   chat_type |-> data.chat_type,
                                   sender_open_id |-> data.sender_open_id,
                                   message_type |-> data.message_type,
                                   content |-> data.content]
                             ELSE lastEvent
             /\ seen' = IF ~called THEN seen
                        ELSE [seen EXCEPT
                                ![i].inserts = @ + (IF r.dup THEN 0 ELSE 1),
                                ![i].dropped = @ + (IF r.outcome = "expired" THEN 1 ELSE 0),
                                ![i].handed = @ + handedNow]
             /\ invoked' = IF r.invokedNow = <<>> THEN invoked
                           ELSE [invoked EXCEPT ![i] = @ + Len(r.invokedNow)]
             /\ lastInvoke' = IF r.invokedNow = <<>> THEN lastInvoke
                              ELSE [serial |-> serial, id |-> i,
                                    stale |-> r.invokedNow[1].stale,
                                    \* had the handler returned {} before onMessage ran
                                    acked |-> AckedBeforeInvoke(r.trace),
                                    torn |-> FALSE]
             /\ firstSeen' = IF called /\ firstSeen[i] = -1
                             THEN [firstSeen EXCEPT ![i] = now] ELSE firstSeen
             /\ lastDup' = IF called
                           THEN [id |-> i, ret |-> r.dup,
                                 first |-> firstSeen[i] = -1,
                                 withinTtl |-> firstSeen[i] # -1 /\
                                     now - firstSeen[i] <= MESSAGE_DEDUPE_TTL_MS,
                                 \* was the id in the cache when the event came
                                 live |-> i \in DOMAIN processedMessages,
                                 stale |-> data.create_time.known /\
                                     now - data.create_time.ms > MESSAGE_EXPIRE_TTL_MS,
                                 handed |-> handedNow > 0,
                                 valid |-> TRUE,
                                 origin |-> IF i = ""
                                            THEN [chat_id |-> data.chat_id,
                                                  sender_open_id |-> data.sender_open_id,
                                                  content |-> data.content]
                                            ELSE NoOrigin]
                           ELSE lastDup
    /\ UNCHANGED <<now, ticks, sdkApi, registryVars, errorLog, crashed, lastCall, calls>>
    /\ UNCHANGED <<clientVars, channelVars>>

\* ------------------------------------------------------- deferred dispatch
\* onMessage of channel.ts without its filter: every message goes to the
\* reply dispatcher
OnMessageNoFilter(accountId, message) ==
    [dispatched |-> TRUE,
     ctx |-> [From |-> message.senderId, Body |-> message.text,
              AccountId |-> accountId, Provider |-> "feishu", Surface |-> "feishu",
              SessionKey |-> "feishu:" \o accountId \o ":" \o message.chatId,
              To |-> message.chatId,
              ChatType |-> IF message.chatType = "p2p" THEN "direct" ELSE "group"]]

\* the onMessage callback channel.ts gives to startGateway, up to its call
\* of dispatchReplyWithBufferedBlockDispatcher: whether it makes that call,
\* and the MsgContext it passes
onMessage(accountId, message) ==
    IF message.messageType # "text" \/ ~Truthy(message.text)
    THEN [dispatched |-> FALSE]
    ELSE [dispatched |-> TRUE,
          ctx |-> [From |-> message.senderId, Body |-> message.text,
                   AccountId |-> accountId, Provider |-> "feishu",
                   Surface |-> "feishu",
                   SessionKey |-> "feishu:" \o accountId \o ":" \o message.chatId,
                   To |-> message.chatId,
                   ChatType |-> IF message.chatType = "p2p" THEN "direct"
                                ELSE "group"]]

\* the onMessage call of one deferred turn: the message it got and whether
\* it called the reply dispatcher
DispatchRecord(msg) ==
    [serial |-> msg.serial, message |-> msg.feishu,
     dispatched |-> onMessage(msg.account, msg.feishu).dispatched]

\* a teardown that took the queued continuations of its account with it:
\* the turn of a message whose account is no longer registered does nothing
DispatchTurnUnlessTornDown ==
    /\ ~crashed
    /\ immediates # <<>>
    /\ LET msg == Head(immediates)
           run == msg.account \in DOMAIN wsClientCache
       IN  /\ immediates' = Tail(immediates)
           /\ inflight' = IF run THEN inflight \cup {msg} ELSE inflight
           /\ invoked' = IF run THEN [invoked EXCEPT ![msg.messageId] = @ + 1]
                         ELSE invoked
           /\ lastInvoke' = IF run
                             THEN [serial |-> msg.serial, id |-> msg.messageId,
                                   stale |-> msg.stale, acked |-> msg.serial <= events,
                                   torn |-> FALSE]
                             ELSE lastInvoke
           /\ lastDispatch' = IF run THEN DispatchRecord(msg) ELSE lastDispatch
    /\ UNCHANGED <<now, ticks, dedupeVars, sdkApi, registryVars, errorLog, crashed,
                   expiredLog, events, seen, firstSeen, lastDup, lastCall, calls,
                   lastEvent>>
    /\ UNCHANGED <<clientVars, lastDeliver>>

\* one setImmediate turn: the oldest queued continuation starts, calling
\* onMessage(feishuMessage); its promise is now pending
DispatchTurn ==
    /\ ~crashed
    /\ immediates # <<>>
    /\ LET msg == Head(immediates)
       IN  /\ immediates' = Tail(immediates)
           /\ inflight' = inflight \cup {msg}
           /\ invoked' = [invoked EXCEPT ![msg.messageId] = @ + 1]
           /\ lastInvoke' = [serial |-> msg.serial, id |-> msg.messageId,
                             stale |-> msg.stale,
                             \* the handler of delivery msg.serial has returned
                             acked |-> msg.serial <= events,
                             \* had the account been unregistered by then
                             torn |-> msg.account \notin DOMAIN wsClientCache]
           /\ lastDispatch' = DispatchRecord(msg)
    /\ UNCHANGED <<now, ticks, dedupeVars, sdkApi, registryVars, errorLog, crashed,
                   expiredLog, events, seen, firstSeen, lastDup, lastCall, calls,
                   lastEvent>>
    /\ UNCHANGED <<clientVars, lastDeliver>>

\* the continuation without try/catch: a rejection escapes the callback
AfterOnMessageNoCatch(errors, outcome) ==
    [errorLog |-> errors, crashed |-> outcome = "reject"]

\* await onMessage(...) inside try/catch: a rejection is logged
AfterOnMessage(errors, outcome) ==
    [errorLog |-> IF outcome = "reject" THEN errors + 1 ELSE errors,
     crashed |-> FALSE]

\* the onMessage promise of msg settles
Settle(msg, outcome) ==
    /\ ~crashed
    /\ msg \in inflight
    /\ inflight' = inflight \ {msg}
    /\ LET r == AfterOnMessage(errorLog, outcome)
       IN  /\ errorLog' = r.errorLog
           /\ crashed' = r.crashed
    /\ lastCall' = [op |-> IF outcome = "reject" THEN "rejected" ELSE "resolved",
                    account |-> "", signal |-> NoSignal,
                    \* how many deliveries had been handled by then
                    handle |-> events, old |-> 0,
                    hadHandle |-> FALSE, raised |-> FALSE, method |-> "none",
                    hadEntryAtCreate |-> FALSE, flip |-> lastCall.flip]
    /\ UNCHANGED <<now, ticks, dedupeVars, sdkApi, registryVars, immediates,
                   eventGhosts, calls>>
    /\ UNCHANGED <<clientVars, channelVars>>

\* ---------------------------------------------------------------- client.ts
AppIds == {"app1", "app2"}
\* a chat id (send) or a message id (reply)
Targets == {"oc_1", "om_2"}
Texts == {"", "hello"}
RateLimited == [kind |-> "result", code |-> 1234, msg |-> "rate limited"]
\* what the platform call does: it resolves with {code, msg} or it throws
Responses ==
    {[kind |-> "result", code |-> 0, msg |-> "success"],
     RateLimited,
     [kind |-> "result", code |-> 1, msg |-> Undefined],
     [kind |-> "throw", name |-> "Error", message |-> "socket hang up"]}

\* String(error) of an Error object
StringOfError(e) == e.name \o ": " \o e.message

\* JSON.stringify({ text }), for texts without characters to escape
StringifyText(text) == "{\"text\":\"" \o text \o "\"}"

\* getFeishuClient(account): construct is what new lark.Client(...) does
\* when the appId has no cached client
getFeishuClient(cache, appId, construct) ==
    IF appId \in cache THEN [threw |-> FALSE, cache |-> cache]
    ELSE IF construct = "throw" THEN [threw |-> TRUE, cache |-> cache]
    ELSE [threw |-> FALSE, cache |-> cache \cup {appId}]

\* the try/catch of sendTextMessage and replyTextMessage around the request
AfterRequest(response) ==
    IF response.kind = "throw"
    THEN [ok |-> FALSE, error |-> StringOfError(response)]
    ELSE IF response.code = 0 THEN [ok |-> TRUE, error |-> Undefined]
    ELSE [ok |-> FALSE, error |-> response.msg]

\* sendTextMessage(account, chatId, text): rejected is whether the promise
\* it returns is rejected, ret the value it resolves to otherwise
sendTextMessage(cache, appId, chatId, text, construct, response) ==
    LET c == getFeishuClient(cache, appId, construct)
    IN  IF c.threw
        THEN [cache |-> c.cache, rejected |-> TRUE, request |-> [sent |-> FALSE],
              ret |-> NoRet]
        ELSE [cache |-> c.cache, rejected |-> FALSE,
              request |-> [sent |-> TRUE, api |-> "im.v1.message.create",
                           target |-> chatId, msg_type |-> "text",
                           content |-> StringifyText(text)],
              ret |-> AfterRequest(response)]

\* replyTextMessage(account, messageId, text)
replyTextMessage(cache, appId, messageId, text, construct, response) ==
    LET c == getFeishuClient(cache, appId, construct)
    IN  IF c.threw
        THEN [cache |-> c.cache, rejected |-> TRUE, request |-> [sent |-> FALSE],
              ret |-> NoRet]
        ELSE [cache |-> c.cache, rejected |-> FALSE,
              request |-> [sent |-> TRUE, api |-> "im.v1.message.reply",
                           target |-> messageId, msg_type |-> "text",
                           content |-> StringifyText(text)],
              ret |-> AfterRequest(response)]

SendRecord(op, appId, target, text, construct, response, r) ==
    [op |-> op, appId |-> appId, target |-> target, text |-> text,
     cached |-> appId \in clientCache, construct |-> construct,
     response |-> response, request |-> r.request, rejected |-> r.rejected,
     ret |-> r.ret]

\* outbound.sendText (channel.ts) or any other caller of sendTextMessage
SendTextMessage(appId, chatId, text, construct, response) ==
    /\ \E r \in {sendTextMessage(clientCache, appId, chatId, text, construct, response)} :
          /\ clientCache' = r.cache
          /\ lastSend' = SendRecord("send", appId, chatId, text, construct, response, r)
    /\ UNCHANGED <<now, ticks, dedupeVars, sdkApi, registryVars, dispatchVars,
                   eventGhosts, lastCall, calls, channelVars>>

ReplyTextMessage(appId, messageId, text, construct, response) ==
    /\ \E r \in {replyTextMessage(clientCache, appId, messageId, text, construct,
                                   response)} :
          /\ clientCache' = r.cache
          /\ lastSend' = SendRecord("reply", appId, messageId, text, construct,
                                    response, r)
    /\ UNCHANGED <<now, ticks, dedupeVars, sdkApi, registryVars, dispatchVars,
                   eventGhosts, lastCall, calls, channelVars>>

\* --------------------------------------------------- channel.ts: deliver
AppIdOf(accountId) == IF accountId = "a1" THEN "app1" ELSE "app2"
\* payload.text of a reply; Undefined stands for undefined and null
PayloadTexts == {Undefined, "", "hello"}

\* deliver(payload) for a message of chat chatId: text = payload.text ?? "",
\* sent with sendTextMessage when it is not empty
deliver(cache, accountId, chatId, payloadText, construct, response) ==
    LET text == IF payloadText = Undefined THEN "" ELSE payloadText
    IN  IF text # ""
        THEN [called |-> TRUE,
              send |-> sendTextMessage(cache, AppIdOf(accountId), chatId, text,
                                       construct, response)]
        ELSE [called |-> FALSE]

\* the reply dispatcher calls deliver with a reply to msg, which onMessage
\* handed to it and whose promise is pending
Deliver(msg, payloadText, construct, response) ==
    /\ ~crashed
    /\ msg \in inflight
    /\ onMessage(msg.account, msg.feishu).dispatched
    /\ \E r \in {deliver(clientCache, msg.account, msg.feishu.chatId, payloadText,
                          construct, response)} :
          /\ clientCache' = IF r.called THEN r.send.cache ELSE clientCache
          /\ lastSend' = IF r.called
                         THEN SendRecord("send", AppIdOf(msg.account),
                                         msg.feishu.chatId,
                                         IF payloadText = Undefined THEN ""
                                         ELSE payloadText,
                                         construct, response, r.send)
                         ELSE lastSend
          /\ lastDeliver' = [serial |-> msg.serial, chatId |-> msg.feishu.chatId,
                             account |-> msg.account,
                             payloadText |-> payloadText, called |-> r.called]
    /\ UNCHANGED <<now, ticks, dedupeVars, sdkApi, registryVars, dispatchVars,
                   eventGhosts, lastCall, calls, lastDispatch>>

\* the events offered to the normalisation: the text event "hi" with one
\* part of its body changed at a time
NormalizeDeliveries ==
    LET base == TextEvent("E1", [raw |-> Absent, known |-> FALSE, ms |-> 0])
    IN  {[base EXCEPT !.chat_type = k] :
            k \in {"p2p", "group", "topic_group", Undefined}}
        \cup {[base EXCEPT !.message_type = m, !.content = c] :
                m \in {"text", "image", Undefined},
                c \in {Absent, Str(ContentHi), Str(ContentNotJson),
                       Str(ContentEmptyObject), Str(ContentEmptyText),
                       Str(ContentNull), Str(ContentTruncated), Str(ContentNumber),
                       Str(ContentImage)}}
        \cup {[base EXCEPT !.chat_id = Undefined, !.sender_open_id = Undefined]}
        \* an event without id, from a group chat
        \cup {[base EXCEPT !.message_id = Undefined, !.chat_id = "oc_2",
                           !.chat_type = "group"]}

\* the events offered to the channel's onMessage
ChannelDeliveries ==
    LET base == TextEvent("E1", [raw |-> Absent, known |-> FALSE, ms |-> 0])
    IN  {base,
         [base EXCEPT !.message_type = "image"],
         [base EXCEPT !.content = Str(ContentEmptyText)],
         [base EXCEPT !.content = Str(ContentNotJson)],
         [base EXCEPT !.content = Str(ContentNumber)],
         [base EXCEPT !.chat_id = Undefined, !.sender_open_id = Undefined],
         [base EXCEPT !.message_id = Undefined, !.chat_id = "oc_2",
                      !.chat_type = "group"]}

\* ------------------------------------------------------------ specification
Outcomes == {"ok", "throw"}

GatewayNext ==
    \/ \E a \in Accounts, s \in Signals \cup {NoSignal}, o \in Outcomes :
          StartGateway(a, s, o)
    \/ \E a \in Accounts, o \in Outcomes : StopGateway(a, o)
    \/ \E s \in Signals, os \in [Accounts -> Outcomes] : Abort(s, os)

EventNext ==
    \/ Tick
    \/ \E h \in DOMAIN conns, data \in Deliveries(now) : HandleEvent(h, data)
    \/ DispatchTurn
    \/ \E msg \in inflight, o \in {"resolve", "reject"} : Settle(msg, o)

\* Events without a message id (missing, or the empty string) from two
\* senders in two conversations with different contents, and one event with
\* an id.
IdlessDeliveries ==
    LET c == [raw |-> Absent, known |-> FALSE, ms |-> 0]
    IN  {TextEvent(i, c) : i \in {Undefined, ""}}
        \cup {[TextEvent(i, c) EXCEPT !.chat_id = "oc_2", !.chat_type = "group",
                                      !.sender_open_id = "ou_2",
                                      !.content = Str(ContentImage)] :
                i \in {Undefined, ""}}
        \cup {TextEvent("E1", c)}

AdmissionNext ==
    \/ Tick
    \/ \E h \in DOMAIN conns, data \in IdlessDeliveries : HandleEvent(h, data)
    \/ DispatchTurn

NormalizeNext ==
    \/ \E h \in DOMAIN conns, data \in NormalizeDeliveries : HandleEvent(h, data)
    \/ DispatchTurn

ChannelNext ==
    \/ \E h \in DOMAIN conns, data \in ChannelDeliveries : HandleEvent(h, data)
    \/ DispatchTurn
    \/ \E msg \in inflight, x \in PayloadTexts : Deliver(msg, x, "ok", RateLimited)
    \/ \E msg \in inflight : Settle(msg, "resolve")

SendNext ==
    \/ \E a \in AppIds, t \in Targets, x \in Texts, c \in Outcomes, p \in Responses :
          SendTextMessage(a, t, x, c, p)
    \/ \E a \in AppIds, t \in Targets, x \in Texts, c \in Outcomes, p \in Responses :
          ReplyTextMessage(a, t, x, c, p)

Next == GatewayNext \/ EventNext \/ SendNext

Spec == Init /\ [][Next]_vars

\* The connection manager alone: no event is delivered, the dedupe cache
\* stays empty.
InitGateway == Init /\ otherEntries = EmptyBag

SpecGateway == InitGateway /\ [][GatewayNext]_vars

StartedCall(a) ==
    [op |-> "startGateway", account |-> a, signal |-> NoSignal, handle |-> 0,
     old |-> 0, hadHandle |-> FALSE, raised |-> FALSE, method |-> "none",
     hadEntryAtCreate |-> FALSE, flip |-> FALSE]

\* The admission filter and the deferred dispatch, from the state in which
\* startGateway has run once for a1 and once for a2 (handles 1 and 2), each
\* without an abort signal: both connections deliver events from then on.
InitEvents ==
    /\ now = StartNow
    /\ ticks = 0
    /\ processedMessages = EmptyFn
    /\ \E n \in Prefills :
          otherEntries = IF n = 0 THEN EmptyBag ELSE [x \in {StartNow} |-> n]
    /\ sdkApi = "close"
    /\ wsClientCache = [a \in Accounts |-> IF a = "a1" THEN 1 ELSE 2]
    /\ conns = [h \in {1, 2} |-> NewClient(IF h = 1 THEN "a1" ELSE "a2")]
    /\ aborted = [s \in Signals |-> FALSE]
    /\ listeners = {}
    /\ immediates = <<>>
    /\ inflight = {}
    /\ errorLog = 0
    /\ expiredLog = 0
    /\ crashed = FALSE
    /\ events = 0
    /\ seen = [i \in MessageIds |-> [inserts |-> 0, dropped |-> 0, handed |-> 0]]
    /\ invoked = [i \in MessageIds |-> 0]
    /\ firstSeen = [i \in MessageIds |-> -1]
    /\ lastDup = NoDup
    /\ lastInvoke = NoInvoke
    /\ lastCall = [StartedCall("a2") EXCEPT !.handle = 2]
    /\ calls = [h \in {1, 2} |->
                  [signal |-> NoSignal, account |-> IF h = 1 THEN "a1" ELSE "a2",
                   live |-> FALSE, runs |-> 0]]
    /\ clientCache = {}
    /\ lastSend = NoSend
    /\ lastEvent = NoEvent
    /\ lastDispatch = NoDispatch
    /\ lastDeliver = NoDeliver

SpecEvents == InitEvents /\ [][EventNext]_vars

\* The channel's path of one message: the handler normalises it, the
\* deferred turn calls onMessage, the reply dispatcher calls deliver.
InitChannel == InitEvents /\ otherEntries = EmptyBag

SpecChannel == InitChannel /\ [][ChannelNext]_vars

\* The admission filter alone, for events with and without message id.
SpecAdmission == InitEvents /\ [][AdmissionNext]_vars

\* The handler's normalisation of one event, up to the onMessage call.
SpecNormalize == InitChannel /\ [][NormalizeNext]_vars

\* The outbound send primitives alone.
InitSend == InitGateway /\ sdkApi = "close"

SpecSend == InitSend /\ [][SendNext]_vars

\* Teardown against the deferred dispatch: account a1 is started, stopped,
\* restarted and aborted while its connections deliver events. Node runs
\* every callback queued with setImmediate (nothing in the module calls
\* clearImmediate), hence the fairness of DispatchTurn.
FreshCreateTime == [raw |-> Absent, known |-> FALSE, ms |-> 0]
TeardownDeliveries(t) ==
    {TextEvent(i, FreshCreateTime) : i \in MessageIds}
    \cup {TextEvent("E1", [raw |-> Str(ToDigits(t - FortyMinutes)), known |-> TRUE,
                           ms |-> t - FortyMinutes])}

TeardownNext ==
    \/ \E o \in Outcomes : StartGateway("a1", "s1", o)
    \/ \E o \in Outcomes : StopGateway("a1", o)
    \/ \E o \in Outcomes : Abort("s1", [a \in Accounts |-> o])
    \/ \E h \in DOMAIN conns, data \in TeardownDeliveries(now) : HandleEvent(h, data)
    \/ DispatchTurn

InitTeardown == InitGateway /\ sdkApi = "close"

SpecTeardown == InitTeardown /\ [][TeardownNext]_vars /\ WF_vars(DispatchTurn)

\* ==================================================================== claims

Pending(i) ==
    Cardinality({k \in 1..Len(immediates) : immediates[k].messageId = i})

\* C1: for every event id, the first isDuplicateMessage call returns false
\* and every later call made no more than 60 seconds after the first returns
\* true, whatever other ids and cleanups come in between.
C1_FirstFalseThenTrueWithinTtl ==
    lastDup.valid =>
        /\ lastDup.first => ~lastDup.ret
        /\ (~lastDup.first /\ lastDup.withinTtl) => lastDup.ret

\* E1 is asked about again exactly 60 seconds after its first call, right
\* after the insertion of another id ran a cleanup at that same moment
C1_Witness ==
    /\ lastDup.valid /\ lastDup.id = "E1" /\ lastDup.ret /\ ~lastDup.first
    /\ now = firstSeen["E1"] + MESSAGE_DEDUPE_TTL_MS
    /\ "" \in DOMAIN processedMessages /\ processedMessages[""] = now
    /\ DedupeSize(processedMessages, otherEntries) > DEDUPE_CLEANUP_SIZE

\* C2: an event whose id has a record in the dedupe cache is not handed to
\* onMessage; every handing goes with the insertion of a record, so an id
\* that arrives several times while its record is there is handed once (not
\* at all when the inserting arrival was dropped as expired), and onMessage
\* runs once per handing.
C2_LiveIdNotRedelivered ==
    /\ lastDup.valid /\ lastDup.live => ~lastDup.handed
    /\ \A i \in MessageIds :
          /\ seen[i].handed = seen[i].inserts - seen[i].dropped
          /\ invoked[i] + Pending(i) = seen[i].handed

\* E1 has just come again while its one record is in the cache (the last
\* delivery found it there), and onMessage has run exactly once for it
C2_Witness ==
    /\ "E1" \in DOMAIN processedMessages
    /\ seen["E1"].inserts = 1 /\ seen["E1"].dropped = 0
    /\ invoked["E1"] = 1 /\ Pending("E1") = 0
    /\ lastDup.valid /\ lastDup.id = "E1" /\ lastDup.live /\ lastDup.ret

OpenConns(a) == {h \in DOMAIN conns : conns[h].account = a /\ conns[h].open}
RegisteredConns(a) ==
    {h \in DOMAIN conns : conns[h].account = a /\ a \in DOMAIN wsClientCache
                          /\ wsClientCache[a] = h}
\* the SDK method stopGateway is to call on a handle
ExpectedMethod ==
    IF sdkApi \in {"close", "both"} THEN "close"
    ELSE IF sdkApi = "stop" THEN "stop" ELSE "none"

\* C3 as claimed: at most one handle per account in the registry, a restart
\* tears the old handle down before the new connection is created, and no
\* two connections of one account are active at the same time.
C3_AsClaimed ==
    /\ \A a \in Accounts : Cardinality(RegisteredConns(a)) <= 1
    /\ lastCall.op = "startGateway" => ~lastCall.hadEntryAtCreate
    /\ \A a \in Accounts : Cardinality(OpenConns(a)) <= 1

\* C3 as amended: at most one handle per account in the registry; a restart
\* runs stopGateway on the old handle (its close or stop method is called
\* when it has one, its entry is removed) before the new connection is
\* created and registered; a connection that is open without being the
\* registered handle of its account is one whose close threw or whose
\* object has no close/stop method.
C3_RestartTearsDownOld ==
    /\ \A a \in Accounts : Cardinality(RegisteredConns(a)) <= 1
    /\ \A a \in DOMAIN wsClientCache :
          wsClientCache[a] \in DOMAIN conns /\ conns[wsClientCache[a]].account = a
    /\ lastCall.op = "startGateway" =>
          /\ ~lastCall.hadEntryAtCreate
          /\ wsClientCache[lastCall.account] = lastCall.handle
          /\ lastCall.old # 0 =>
                /\ lastCall.old # lastCall.handle
                /\ lastCall.method = ExpectedMethod
                /\ conns[lastCall.old].closeCalls =
                      (IF ExpectedMethod = "none" THEN 0 ELSE 1)
    /\ \A h \in DOMAIN conns :
          (conns[h].open /\ h \notin RegisteredConns(conns[h].account)) =>
              (sdkApi = "none" \/ conns[h].closeCalls = 1)

\* a1 is restarted: the old connection has been closed and the new handle
\* is the registered one
C3_Witness ==
    /\ lastCall.op = "startGateway" /\ lastCall.old # 0
    /\ ~conns[lastCall.old].open
    /\ conns[lastCall.handle].open
    /\ wsClientCache[lastCall.account] = lastCall.handle

\* C4: a startGateway call that is given a signal which then fires has its
\* abort listener call stopGateway exactly once (not before the signal
\* fires, once when it does, never again), and right after the signal fired
\* the registry holds no handle for the account.
C4_AbortStopsExactlyOnce ==
    /\ \A h \in DOMAIN calls :
          /\ calls[h].runs <= 1
          /\ calls[h].live =>
                calls[h].runs = (IF aborted[calls[h].signal] THEN 1 ELSE 0)
    /\ lastCall.op = "abort" =>
          \A h \in DOMAIN calls :
              (calls[h].live /\ calls[h].signal = lastCall.signal) =>
                  calls[h].account \notin DOMAIN wsClientCache

\* a signal given to a startGateway call has just fired; the listener ran
\* once and the connection is closed
C4_Witness ==
    /\ lastCall.op = "abort"
    /\ \E h \in DOMAIN calls :
          /\ calls[h].live /\ calls[h].signal = lastCall.signal
          /\ calls[h].runs = 1
          /\ ~conns[h].open /\ conns[h].closeCalls = 1

\* C5: stopGateway never raises; it calls close(), or stop() only when close
\* is not a function, discards what that call throws and removes the handle
\* whether the call succeeded, threw or there was no method; the stop that
\* startGateway performs behaves the same, so startGateway still creates and
\* registers the new handle.
C5_StopNeverRaises ==
    /\ ~crashed
    /\ lastCall.op \in {"stopGateway", "startGateway"} =>
          /\ ~lastCall.raised
          /\ lastCall.method = (IF lastCall.old # 0 THEN ExpectedMethod ELSE "none")
          /\ lastCall.old # 0 =>
                conns[lastCall.old].closeCalls =
                    (IF ExpectedMethod = "none" THEN 0 ELSE 1)
    /\ lastCall.op = "stopGateway" => lastCall.account \notin DOMAIN wsClientCache
    /\ lastCall.op = "startGateway" =>
          /\ lastCall.handle # 0
          /\ wsClientCache[lastCall.account] = lastCall.handle
          /\ RegisteredConns(lastCall.account) = {lastCall.handle}

\* a restart whose close of the old handle threw: the old connection is
\* still open, its entry is gone and the new handle is registered
C5_Witness ==
    /\ lastCall.op = "startGateway" /\ lastCall.old # 0
    /\ conns[lastCall.old].open /\ conns[lastCall.old].closeCalls = 1
    /\ wsClientCache[lastCall.account] = lastCall.handle

StopNoOpStep ==
    (/\ lastCall'.op = "stopGateway"
     /\ lastCall'.flip # lastCall.flip
     /\ lastCall'.account \notin DOMAIN wsClientCache)
    => /\ UNCHANGED <<wsClientCache, conns, listeners, aborted, processedMessages,
                      otherEntries, immediates, inflight, crashed>>
       /\ ~lastCall'.raised
       /\ lastCall'.method = "none"

StopTwiceIsStopOnce ==
    \A a \in Accounts, o1 \in Outcomes, o2 \in Outcomes :
        LET r1 == stopGateway(wsClientCache, conns, sdkApi, a, o1)
            r2 == stopGateway(r1.cache, r1.conns, sdkApi, a, o2)
        IN  /\ r2.cache = r1.cache /\ r2.conns = r1.conns
            /\ ~r2.raised /\ r2.method = "none" /\ ~r2.hadHandle

\* C6: stopGateway for an account with no handle raises nothing, calls no
\* close/stop and leaves the registry, the other accounts' connections and
\* the dedupe cache as they were; a second stopGateway right after a first
\* changes nothing more.
C6_StopWithoutHandleIsNoOp == [][StopNoOpStep]_vars /\ []StopTwiceIsStopOnce

\* stopGateway was just called for an account it had stopped before, while
\* the other account's handle is registered
C6_Witness ==
    /\ lastCall.op = "stopGateway" /\ ~lastCall.hadHandle
    /\ \E h \in DOMAIN conns :
          conns[h].account = lastCall.account /\ conns[h].closeCalls = 1
    /\ \E a \in DOMAIN wsClientCache : a # lastCall.account

\* C7: an event created more than 30 minutes before it is handled is never
\* handed to onMessage: not scheduled, not pending, not invoked.
C7_StaleNeverDispatched ==
    /\ lastDup.valid /\ lastDup.stale => ~lastDup.handed
    /\ \A k \in 1..Len(immediates) : ~immediates[k].stale
    /\ \A m \in inflight : ~m.stale
    /\ ~lastInvoke.stale

\* a first-seen event older than 30 minutes has just been dropped while an
\* earlier admitted event is being dispatched
C7_Witness ==
    /\ lastDup.valid /\ lastDup.stale /\ ~lastDup.ret /\ ~lastDup.handed
    /\ expiredLog >= 1
    /\ lastInvoke.serial # 0 /\ lastInvoke.serial < events

\* a string made of decimal digits only, and the number it writes
StrictlyNumeric(str) == str # <<>> /\ \A k \in 1..Len(str) : IsDigit(str[k])

RECURSIVE DecimalValue(_)
DecimalValue(str) ==
    IF str = <<>> THEN 0
    ELSE DecimalValue(SubSeq(str, 1, Len(str) - 1)) * 10 + DigitVal(str[Len(str)])

\* create_time values to try isMessageExpired on at time t
ExpiryInputs(t) ==
    {c.raw : c \in CreateTimes(t)}
    \cup {Str(ToDigits(t - d)) : d \in {0, 1, MESSAGE_EXPIRE_TTL_MS - 1}}
    \cup {Str(ToDigits(t + d)) : d \in {1, MESSAGE_EXPIRE_TTL_MS + 1}}

\* C8 as claimed: isMessageExpired returns true exactly when createdAtMs is
\* present, numeric and more than 30 minutes before now; false when it is
\* absent, empty or non-numeric, and false at an age of 30 minutes or less.
C8_AsClaimed ==
    \A c \in ExpiryInputs(now) :
        isMessageExpired(c, now) =
            (/\ c.present
             /\ StrictlyNumeric(c.str)
             /\ now - DecimalValue(c.str) > MESSAGE_EXPIRE_TTL_MS)

\* C8, the part the code does keep: on a missing or empty create_time, on
\* one with no leading digit, and on a string of digits only, the result is
\* as claimed, with the strict bound at exactly 30 minutes.
C8_OnWellFormedInputs ==
    \A c \in ExpiryInputs(now) :
        (~c.present \/ c.str = <<>> \/ StrictlyNumeric(c.str) \/ ~IsDigit(Head(c.str))) =>
            isMessageExpired(c, now) =
                (/\ c.present
                 /\ StrictlyNumeric(c.str)
                 /\ now - DecimalValue(c.str) > MESSAGE_EXPIRE_TTL_MS)

\* a handler step that touches the dispatch state does one thing to it:
\* it appends its own message to the setImmediate queue
AdmitStep ==
    (/\ events' = events + 1
     /\ <<immediates, invoked, inflight>>' # <<immediates, invoked, inflight>>)
    => /\ Len(immediates') = Len(immediates) + 1
       /\ SubSeq(immediates', 1, Len(immediates)) = immediates
       /\ immediates'[Len(immediates')].serial = events'
       /\ invoked' = invoked
       /\ inflight' = inflight

\* C9: the handler returns its acknowledgment before onMessage runs for the
\* event: the step in which an event is admitted queues the dispatch and
\* returns without invoking onMessage, whatever is still queued or pending,
\* and onMessage is only ever invoked for a delivery whose handler has
\* returned.
C9_AckBeforeDispatch ==
    [](lastInvoke.serial # 0 => lastInvoke.acked) /\ [][AdmitStep]_vars

\* two deliveries have been acknowledged while the dispatch of one is still
\* pending and that of the other has not started
C9_Witness ==
    /\ events >= 2
    /\ inflight # {} /\ immediates # <<>>
    /\ lastInvoke.serial # 0 /\ lastInvoke.acked

RejectStep ==
    (lastCall'.op = "rejected" /\ inflight' # inflight /\ inflight' \subseteq inflight)
    => /\ errorLog' = errorLog + 1
       /\ ~crashed'
       /\ UNCHANGED <<processedMessages, otherEntries, wsClientCache, conns,
                      listeners, immediates, events, seen, invoked, lastDup>>

\* C10: an error raised by onMessage is caught in the deferred turn and
\* logged; it changes no handler result, leaves the dedupe cache and the
\* connection registry as they are, and the process goes on handling events.
C10_DispatchErrorContained == []~crashed /\ [][RejectStep]_vars

\* an onMessage promise was rejected and logged, and an event delivered
\* after that has been admitted and dispatched
C10_Witness ==
    /\ lastCall.op = "rejected" /\ errorLog >= 1
    /\ lastInvoke.serial > lastCall.handle
    /\ wsClientCache # EmptyFn

Queued(n) == \E k \in 1..Len(immediates) : immediates[k].serial = n

\* a step that invokes onMessage takes the oldest continuation off the queue
\* and invokes onMessage once, for that message
InvokeStep ==
    invoked' # invoked =>
        /\ immediates # <<>>
        /\ immediates' = Tail(immediates)
        /\ invoked' = [invoked EXCEPT ![Head(immediates).messageId] = @ + 1]
        /\ lastInvoke'.serial = Head(immediates).serial
        /\ inflight' = inflight \cup {Head(immediates)}

\* no step but the invoking one takes a continuation off the queue
KeepQueuedStep ==
    \A n \in 1..(MaxEvents + 1) :
        (Queued(n) /\ ~Queued(n)') => lastInvoke'.serial = n /\ invoked' # invoked

\* every admitted event (new id, not expired) is either queued or invoked,
\* once: invocations and queued continuations add up to the admissions
AdmittedAccountedFor ==
    /\ \A i \in MessageIds :
          invoked[i] + Pending(i) = seen[i].inserts - seen[i].dropped
    /\ \A j, k \in 1..Len(immediates) :
          immediates[j].serial = immediates[k].serial => j = k

\* C11: every event that passes the dedupe and staleness checks has
\* onMessage invoked for it, eventually and exactly once, whatever
\* stopGateway, restart or abort happens between its admission and its
\* deferred turn: no teardown takes a scheduled continuation off the queue.
C11_AdmittedEventuallyDispatchedOnce ==
    /\ []AdmittedAccountedFor
    /\ [][InvokeStep /\ KeepQueuedStep]_vars
    /\ \A n \in 1..(MaxEvents + 1) :
          Queued(n) ~> (lastInvoke.serial = n /\ ~Queued(n))
    /\ <>[](immediates = <<>>)

\* onMessage has run for an event whose account had been unregistered
\* after the event was admitted, and every connection is closed
C11_Witness ==
    /\ lastInvoke.serial # 0 /\ lastInvoke.torn
    /\ wsClientCache = EmptyFn
    /\ \A h \in DOMAIN conns : ~conns[h].open /\ conns[h].closeCalls = 1

\* C12 as claimed: sendTextMessage and replyTextMessage never throw (the
\* promise they return is never rejected); platform code 0 gives {ok: true},
\* a non-zero code gives {ok: false, error: msg}, and an exception anywhere
\* on the send path, obtaining the client included, gives {ok: false, error}.
C12_AsClaimed ==
    lastSend.op # "none" =>
        /\ ~lastSend.rejected
        /\ IF (~lastSend.cached /\ lastSend.construct = "throw")
              \/ lastSend.response.kind = "throw"
           THEN ~lastSend.ret.ok /\ lastSend.ret.error # Undefined
           ELSE IF lastSend.response.code = 0
           THEN lastSend.ret = [ok |-> TRUE, error |-> Undefined]
           ELSE lastSend.ret = [ok |-> FALSE, error |-> lastSend.response.msg]

\* C12, the part the code does keep: once the client is there (cached, or
\* its construction succeeds) no call is rejected and the result is as
\* claimed, the same for both primitives.
C12_OnceClientObtained ==
    /\ (lastSend.op # "none" /\ (lastSend.cached \/ lastSend.construct = "ok")) =>
          /\ ~lastSend.rejected
          /\ lastSend.request.sent /\ lastSend.request.target = lastSend.target
          /\ IF lastSend.response.kind = "throw"
             THEN lastSend.ret = [ok |-> FALSE, error |-> "Error: socket hang up"]
             ELSE IF lastSend.response.code = 0
             THEN lastSend.ret = [ok |-> TRUE, error |-> Undefined]
             ELSE lastSend.ret = [ok |-> FALSE, error |-> lastSend.response.msg]
    /\ \A a \in AppIds, t \in Targets, x \in Texts, c \in Outcomes, p \in Responses :
          LET s == sendTextMessage(clientCache, a, t, x, c, p)
              r == replyTextMessage(clientCache, a, t, x, c, p)
          IN  s.ret = r.ret /\ s.rejected = r.rejected /\ s.cache = r.cache

StringValue(x) == [kind |-> "string", val |-> x]

\* what the text member of each content envelope is, written out by hand
ExpectedText(content) ==
    IF content = Str(ContentHi) \/ content = Str(ContentImage) THEN StringValue("hi")
    ELSE IF content = Str(ContentEmptyText) THEN StringValue("")
    ELSE IF content = Str(ContentNumber) THEN [kind |-> "number", val |-> "5"]
    ELSE UndefinedValue

\* the step that admits an event queues the normalised form of that event
NormalizeStep ==
    Len(immediates') = Len(immediates) + 1 =>
        LET m == immediates'[Len(immediates')].feishu
            raw == lastEvent'
        IN  /\ raw.serial # 0 /\ immediates'[Len(immediates')].serial = events'
            /\ m.chatType \in {"p2p", "group"}
            /\ m.chatType = "p2p" <=> raw.chat_type = "p2p"
            /\ m.text = (IF raw.message_type = "text" THEN ExpectedText(raw.content)
                         ELSE UndefinedValue)

\* every new, unexpired event is handed on whatever its content, and the
\* dispatcher context names the conversation kind direct or group
NormalizedAndHanded ==
    /\ \A i \in MessageIds : seen[i].handed = seen[i].inserts - seen[i].dropped
    /\ \A msg \in inflight :
          LET call == onMessage(msg.account, msg.feishu)
          IN  call.dispatched =>
                /\ call.ctx.ChatType \in {"direct", "group"}
                /\ call.ctx.ChatType = "direct" <=> msg.feishu.chatType = "p2p"

\* C13: normalisation never fails an admitted event: the conversation kind
\* becomes p2p for the raw kind "p2p" and group for any other or missing
\* kind (direct/group in the dispatcher context); for a text message the
\* text field is the text member of the parsed content, absent when the
\* content cannot be parsed, and the event is handed to onMessage all the
\* same; for other message kinds the text field is absent.
C13_NormalizationTotal == []NormalizedAndHanded /\ [][NormalizeStep]_vars

\* a text event whose content is not JSON was admitted and onMessage has
\* run for it, its text field absent
C13_Witness ==
    /\ lastEvent.serial # 0 /\ lastEvent.message_type = "text"
    /\ lastEvent.content = Str(ContentNotJson)
    /\ lastInvoke.serial = events
    /\ lastDispatch.serial = events
    /\ lastDispatch.message.messageType = "text"
    /\ lastDispatch.message.content = ContentNotJson
    /\ lastDispatch.message.text = UndefinedValue
    /\ lastDispatch.message.chatType = "p2p"

\* a step that writes the "Skipping expired message" line writes one line,
\* for an event whose id had no record before and has one now, and queues
\* nothing
ExpiredLogStep ==
    expiredLog' # expiredLog =>
        /\ expiredLog' = expiredLog + 1
        /\ events' = events + 1
        /\ lastDup'.valid /\ ~lastDup'.ret /\ ~lastDup'.live
        /\ lastDup'.id \notin DOMAIN processedMessages
        /\ lastDup'.id \in DOMAIN processedMessages'
        /\ processedMessages'[lastDup'.id] = now
        /\ immediates' = immediates

\* an event whose id has a record is dropped without a log line, whatever
\* its age
SilentDuplicateStep ==
    (events' = events + 1 /\ lastDup'.valid /\ lastDup'.live) =>
        /\ expiredLog' = expiredLog
        /\ immediates' = immediates
        /\ dedupeVars' = dedupeVars

\* an event older than 30 minutes whose id had no record is recorded, and
\* logged once
StaleFirstArrivalStep ==
    (events' = events + 1 /\ dedupeVars' # dedupeVars /\ lastDup'.stale) =>
        /\ expiredLog' = expiredLog + 1
        /\ lastDup'.id \in DOMAIN processedMessages'

\* C14: the dedupe check comes before the staleness check: an event that
\* is a duplicate is dropped without a log line even when it is expired,
\* only an expired event whose id has no record writes the "expired" line,
\* and that id is recorded on this first arrival, so an expired id is
\* logged at most once while its record is there.
C14_DedupeBeforeStaleness ==
    /\ [](expiredLog = seen[""].dropped + seen["E1"].dropped)
    /\ [][ExpiredLogStep /\ SilentDuplicateStep /\ StaleFirstArrivalStep]_vars

\* E1 came expired and was logged, then came again expired while its
\* record was there and was dropped without a second line
C14_Witness ==
    /\ lastDup.valid /\ lastDup.id = "E1" /\ lastDup.stale /\ lastDup.live
    /\ lastDup.ret /\ ~lastDup.handed
    /\ seen["E1"].dropped = 1 /\ seen["E1"].inserts = 1 /\ expiredLog = 1

\* a step that changes the dedupe mapping is one isDuplicateMessage call
\* that inserts a new id with the current time; when that leaves more than
\* 100 entries, exactly the entries older than 60 seconds go, otherwise
\* none goes
DedupeChangeStep ==
    dedupeVars' # dedupeVars =>
        LET big == DedupeSize(processedMessages, otherEntries) + 1 > DEDUPE_CLEANUP_SIZE
            old(ts) == now - ts > MESSAGE_DEDUPE_TTL_MS
        IN  /\ events' = events + 1
            /\ lastDup'.valid /\ ~lastDup'.ret
            /\ lastDup'.id \notin DOMAIN processedMessages
            /\ lastDup'.id \in DOMAIN processedMessages'
            /\ processedMessages'[lastDup'.id] = now
            /\ DOMAIN processedMessages' \subseteq DOMAIN processedMessages \cup {lastDup'.id}
            /\ \A j \in DOMAIN processedMessages :
                  /\ j \in DOMAIN processedMessages' <=> ~(big /\ old(processedMessages[j]))
                  /\ j \in DOMAIN processedMessages' =>
                        processedMessages'[j] = processedMessages[j]
            /\ DOMAIN otherEntries' \subseteq DOMAIN otherEntries
            /\ \A x \in DOMAIN otherEntries :
                  CopiesIn(x, otherEntries') =
                      (IF big /\ old(x) THEN 0 ELSE otherEntries[x])

\* an id is reported as a duplicate exactly when its record is in the
\* mapping, however old the record is
DuplicateIffRecorded == lastDup.valid => (lastDup.ret <=> lastDup.live)

\* C15: cleanup runs only inside an isDuplicateMessage call that inserted
\* a new id and left more than 100 entries; it removes exactly the entries
\* older than 60 seconds, never a younger one, never the one just inserted;
\* an id seen before returns false again only once a cleanup has removed
\* its record, and returns true until then, also past 60 seconds.
C15_CleanupOpportunisticExact ==
    []DuplicateIffRecorded /\ [][DedupeChangeStep]_vars

\* E1 was seen, a cleanup more than 60 seconds later removed its record,
\* and E1 has now returned false a second time
C15_Witness ==
    /\ lastDup.valid /\ lastDup.id = "E1" /\ ~lastDup.first /\ ~lastDup.ret
    /\ seen["E1"].inserts = 2
    /\ processedMessages["E1"] = now /\ now > firstSeen["E1"] + MESSAGE_DEDUPE_TTL_MS

\* E1 is reported as a duplicate although its record is more than 60
\* seconds old: no cleanup has run since
C15_StillDuplicatePastTtl ==
    /\ lastDup.valid /\ lastDup.id = "E1" /\ lastDup.ret /\ ~lastDup.withinTtl
    /\ now - processedMessages["E1"] > MESSAGE_DEDUPE_TTL_MS

\* a text field that holds something: a string with characters, or a number
NonEmptyText(v) == v.kind \in {"string", "number"} /\ v.val # ""

\* the session keys of the two accounts in the chats of ChannelDeliveries,
\* written out
ExpectedSessionKey(accountId, chatId) ==
    IF accountId = "a1"
    THEN (IF chatId = "oc_1" THEN "feishu:a1:oc_1"
          ELSE IF chatId = "oc_2" THEN "feishu:a1:oc_2" ELSE "feishu:a1:")
    ELSE (IF chatId = "oc_1" THEN "feishu:a2:oc_1"
          ELSE IF chatId = "oc_2" THEN "feishu:a2:oc_2" ELSE "feishu:a2:")

\* a deliver call that sends nothing leaves the send primitive untouched
DeliverStep ==
    (lastDeliver' # lastDeliver /\ ~lastDeliver'.called) =>
        UNCHANGED <<lastSend, clientCache>>

OnMessageAsClaimed ==
    /\ lastDispatch.serial # 0 =>
          (lastDispatch.dispatched <=>
              (/\ lastDispatch.message.messageType = "text"
               /\ NonEmptyText(lastDispatch.message.text)))
    /\ \A msg \in inflight :
          LET call == onMessage(msg.account, msg.feishu)
          IN  call.dispatched =>
                /\ call.ctx.From = msg.feishu.senderId
                /\ call.ctx.Body = msg.feishu.text
                /\ call.ctx.AccountId = msg.account
                /\ call.ctx.SessionKey =
                      ExpectedSessionKey(msg.account, msg.feishu.chatId)
                /\ call.ctx.To = msg.feishu.chatId
    /\ lastDeliver.serial # 0 =>
          /\ lastDeliver.called <=> lastDeliver.payloadText \notin {Undefined, ""}
          /\ lastDeliver.called =>
                /\ lastSend.op = "send"
                /\ lastSend.appId = AppIdOf(lastDeliver.account)
                /\ lastSend.target = lastDeliver.chatId
                /\ lastSend.text = lastDeliver.payloadText
                /\ lastSend.request.sent
                /\ lastSend.request.target = lastDeliver.chatId
                /\ lastSend.request.content = "{\"text\":\"hello\"}"

\* C16: onMessage calls the reply dispatcher exactly for a message of kind
\* "text" whose text is not empty; the context then carries the sender,
\* the text as body, the account id, the session key
\* feishu:<accountId>:<chatId> and the chat id as target; deliver sends the
\* reply text to that chat id exactly when the text is not empty.
C16_OnMessageDispatchesText == []OnMessageAsClaimed /\ [][DeliverStep]_vars

\* two messages are with the dispatcher, one from chat oc_1 and one from
\* oc_2; a reply to the second has just been sent to oc_2
C16_Witness ==
    /\ \E m1, m2 \in inflight :
          /\ m1.feishu.chatId = "oc_1" /\ m2.feishu.chatId = "oc_2"
          /\ onMessage(m1.account, m1.feishu).dispatched
          /\ onMessage(m2.account, m2.feishu).dispatched
    /\ lastDeliver.serial # 0 /\ lastDeliver.called /\ lastDeliver.chatId = "oc_2"
    /\ lastSend.target = "oc_2" /\ lastSend.text = "hello"

\* a step that calls close() or stop() on a handle calls it once, on the
\* handle the registry holds for its account, and the handle is out of the
\* registry afterwards
CloseCallStep ==
    \A h \in DOMAIN conns :
        conns'[h].closeCalls # conns[h].closeCalls =>
            /\ conns'[h].closeCalls = conns[h].closeCalls + 1
            /\ Registered(wsClientCache, conns[h].account) = h
            /\ Registered(wsClientCache', conns[h].account) # h

\* C17: over any sequence of startGateway, stopGateway and abort, close
\* (or stop) is called at most once on a handle, and only on a handle that
\* is in the registry at that moment.
C17_CloseAtMostOnceWhileRegistered ==
    /\ [](\A h \in DOMAIN conns : conns[h].closeCalls <= 1)
    /\ [][CloseCallStep]_vars

\* a1 was started twice and its signal has fired: the first handle was
\* closed by the restart, the second by the abort listener, each once,
\* although two listeners ran
C17_Witness ==
    /\ lastCall.op = "abort"
    /\ DOMAIN conns = {1, 2}
    /\ \A h \in DOMAIN conns :
          /\ conns[h].closeCalls = 1 /\ conns[h].account = "a1"
          /\ calls[h].runs = 1
    /\ wsClientCache = EmptyFn

\* handle h was made for an account that an earlier call had started with
\* signal s, and was itself given another signal
RestartedWithOtherSignal(h, s) ==
    /\ calls[h].signal \in Signals \ {s}
    /\ \E h0 \in DOMAIN calls :
          h0 < h /\ calls[h0].account = calls[h].account /\ calls[h0].signal = s

FiringLeavesNewerHandle ==
    \A s \in Signals :
        (aborted'[s] /\ ~aborted[s]) =>
            \A h \in DOMAIN conns :
                (/\ RestartedWithOtherSignal(h, s)
                 /\ Registered(wsClientCache, conns[h].account) = h) =>
                    /\ Registered(wsClientCache', conns[h].account) = h
                    /\ conns'[h] = conns[h]

\* C18 as claimed: the signal given to one startGateway call tears down
\* only the handle of that call; when the account has been started again
\* with a different signal, the firing of the earlier signal leaves the
\* newer handle open and in the registry.
C18_AsClaimed == [][FiringLeavesNewerHandle]_vars

FiringLeavesOtherAccounts ==
    \A s \in Signals :
        (aborted'[s] /\ ~aborted[s]) =>
            \A h \in DOMAIN conns :
                (\A h0 \in DOMAIN calls :
                    calls[h0].account = conns[h].account => calls[h0].signal # s) =>
                    /\ conns'[h] = conns[h]
                    /\ Registered(wsClientCache', conns[h].account) =
                          Registered(wsClientCache, conns[h].account)

\* C18, the part the code does keep: the firing of a signal touches no
\* handle of an account that was never started with that signal.
C18_OtherAccountsUntouched == [][FiringLeavesOtherAccounts]_vars

IdlessDropStep ==
    (/\ events' = events + 1
     /\ lastDup'.valid /\ lastDup'.id = ""
     /\ "" \in DOMAIN processedMessages) =>
        /\ UNCHANGED <<dedupeVars, immediates, inflight, expiredLog, seen, invoked>>
        /\ lastDup'.live

\* C19: events without a message id share the id "": while the record of ""
\* is in the dedupe mapping, an event without id is dropped as a duplicate,
\* whoever sent it, in whichever conversation and with whatever content;
\* nothing is recorded, logged or handed to onMessage for it.
C19_IdlessEventsShareOneRecord ==
    /\ [][IdlessDropStep]_vars
    /\ [](lastDup.valid /\ lastDup.id = "" /\ lastDup.live =>
             lastDup.ret /\ ~lastDup.handed)

\* an event without id from ou_1 in oc_1 was admitted; the last event, also
\* without id, came from ou_2 in oc_2 with another content and was dropped
C19_Witness ==
    /\ lastDup.valid /\ lastDup.id = "" /\ lastDup.live /\ lastDup.ret
    /\ lastDup.origin = [chat_id |-> "oc_2", sender_open_id |-> "ou_2",
                         content |-> Str(ContentImage)]
    /\ lastEvent.serial = 1
    /\ lastEvent.chat_id = "oc_1" /\ lastEvent.sender_open_id = "ou_1"
    /\ lastEvent.content = Str(ContentHi)
    /\ seen[""].inserts = 1 /\ seen["E1"].inserts = 0
    /\ invoked[""] = 1

\* once the record of "" has been cleaned out, an event without id is
\* admitted again
C19_AdmittedAgainAfterCleanup ==
    seen[""].inserts = 2 /\ invoked[""] = 2

\* the entries whose recorded time is at most 60 s before t
FreshEntries(pm, other, t) ==
    Cardinality({i \in DOMAIN pm : t - pm[i] <= MESSAGE_DEDUPE_TTL_MS})
    + BagCardinality([y \in {x \in DOMAIN other : t - x <= MESSAGE_DEDUPE_TTL_MS}
                        |-> other[y]])

NoEntryOlderThanTtl(pm, other, t) ==
    /\ \A i \in DOMAIN pm : t - pm[i] <= MESSAGE_DEDUPE_TTL_MS
    /\ \A y \in DOMAIN other : t - y <= MESSAGE_DEDUPE_TTL_MS

\* a step in which isDuplicateMessage returned false
ReturnedFalseStep ==
    \E i \in MessageIds : seen'[i].inserts = seen[i].inserts + 1

AfterFalseStep ==
    ReturnedFalseStep =>
        /\ \/ DedupeSize(processedMessages', otherEntries') <= DEDUPE_CLEANUP_SIZE
           \/ NoEntryOlderThanTtl(processedMessages', otherEntries', now')
        /\ DedupeSize(processedMessages', otherEntries') <=
              DEDUPE_CLEANUP_SIZE + FreshEntries(processedMessages', otherEntries', now')

\* C20: right after an isDuplicateMessage call that returned false, the
\* mapping has at most 100 entries or no entry older than 60 s, so its size
\* is at most 100 plus the number of ids whose first-seen time, the time
\* recorded in the mapping, lies in the last 60 s.
C20_SizeBoundedAfterInsert == [][AfterFalseStep]_vars

\* the 101st insertion found 100 entries older than 60 s and removed them
C20_Witness ==
    /\ lastDup.valid /\ lastDup.id = "E1" /\ ~lastDup.ret
    /\ seen[""].inserts = 1 /\ seen["E1"].inserts = 1
    /\ now > firstSeen[""] + MESSAGE_DEDUPE_TTL_MS
    /\ DOMAIN processedMessages = {"E1"} /\ processedMessages["E1"] = now
    /\ otherEntries = EmptyBag

\* the mapping is over the threshold with nothing to remove
C20_OverThresholdAllFresh ==
    /\ DedupeSize(processedMessages, otherEntries) = DEDUPE_CLEANUP_SIZE + 1
    /\ NoEntryOlderThanTtl(processedMessages, otherEntries, now)
    /\ lastDup.valid /\ ~lastDup.ret

====
